---- MODULE Spec2Model ----
(***************************************************************************)
(* The Mondaq analytics dashboard (mondaq_dashboard_app.py) as a state     *)
(* machine.  One script run is one action: load_data() through the cache,  *)
(* the sidebar selections, the reader and article filters, the topic       *)
(* derivation and the three rankings.  Data frames are modelled as records *)
(* with a column list, an index of row labels and a row list; the frames a *)
(* run creates live in a heap of objects so that copy() and in-place       *)
(* column assignment keep their meaning.                                   *)
(***************************************************************************)
EXTENDS Integers, Sequences, FiniteSets, TLC

VARIABLES
    reader_csv,          \* Reader-MondaqAnalytics.csv
    article_csv,         \* Article-MondaqAnalytics.csv
    author_csv,          \* Author-MondaqAnalytics.csv
    cache,               \* what st.cache_data holds for load_data()
    clock,               \* the last value datetime.now() returned (days)
    renders,             \* how many times the script has run
    previous,            \* what the run before the last one selected and produced
    status,              \* "start", "ok" or "KeyError": how the last run ended
    country_filter, industry_filter, date_option, date_cutoff,
    reader_df, merged_df,                  \* the loaded frames as the run left them
    filtered_reader_df, filtered_merged_df,
    topic_df, top_topics, top_articles, top_authors

vars == <<reader_csv, article_csv, author_csv, cache, clock, renders, previous, status,
          country_filter, industry_filter, date_option, date_cutoff,
          reader_df, merged_df, filtered_reader_df, filtered_merged_df,
          topic_df, top_topics, top_articles, top_authors>>

inputs == <<reader_csv, article_csv, author_csv>>

\* what one run selects and produces
results == <<country_filter, industry_filter, date_option, date_cutoff,
             reader_df, merged_df, filtered_reader_df, filtered_merged_df,
             topic_df, top_topics, top_articles, top_authors, status>>

(***************************************************************************)
(* Bounds of the model.                                                    *)
(***************************************************************************)
MaxReaders == 2      \* reader rows in the filter specification
MaxArticles == 2     \* article rows in the join specification
MaxAuthors == 2      \* author rows in the join specification
MaxFrags == 2        \* fragments a title is built from in the topic specification
MaxRanked == 6       \* article rows of a short table in the ranking specification
MaxTick == 1         \* how far the clock advances past Now0
MaxRenders == 2      \* script runs in one behaviour of the session specification

Now0 == 100          \* the day of the first run

(***************************************************************************)
(* Values.  A missing cell is NaN in a text column, NaNum in a numeric     *)
(* column and NaT in a datetime column; a missing title is NaNTitle.       *)
(***************************************************************************)
NaN == "NaN"
NaNum == -1
NaT == -1
BadDate == -2                     \* a date cell that does not parse
NaNTitle == <<"NaN">>
Unset == [columns |-> <<>>, index |-> <<>>, rows |-> <<>>]
NoCache == [loaded |-> FALSE]
NoRun == [clock |-> 0]

Range(s) == {s[i] : i \in 1..Len(s)}

\* a sequence and a row as explicit values (TLC otherwise keeps the defining
\* expression and evaluates it again at every use)
List(s) == s \o <<>>
Row(f) == f @@ <<>>

Min(a, b) == IF a < b THEN a ELSE b

RECURSIVE SumSeq(_)
SumSeq(s) == IF s = <<>> THEN 0 ELSE Head(s) + SumSeq(Tail(s))

RECURSIVE SeqsUpTo(_, _)
\* all sequences over S of length at most n
SeqsUpTo(S, n) ==
    IF n = 0 THEN {<<>>}
    ELSE LET shorter == SeqsUpTo(S, n - 1)
         IN shorter \cup {Append(s, x) : s \in {t \in shorter : Len(t) = n - 1}, x \in S}

RangeIndex(n) == List([i \in 1..n |-> i - 1])

(***************************************************************************)
(* Reading the sources (lines 19-28).                                      *)
(***************************************************************************)
\* str.strip() on the header names that occur in the sources
StrStrip(name) ==
    CASE name = "Last Access Date " -> "Last Access Date"
      [] name = " Date" -> "Date"
      [] name = "Author Id " -> "Author Id"
      [] OTHER -> name

\* pd.read_csv: the header row names the columns, the rows get a RangeIndex
ReadCsv(csv) ==
    [columns |-> csv.header, index |-> RangeIndex(Len(csv.records)), rows |-> csv.records]

\* df.columns = df.columns.str.strip()
StripColumns(df) ==
    LET new == List([i \in 1..Len(df.columns) |-> StrStrip(df.columns[i])])
        Old(c) == CHOOSE o \in Range(df.columns) : StrStrip(o) = c
    IN [columns |-> new,
        index |-> df.index,
        rows |-> List([i \in 1..Len(df.rows) |-> Row([c \in Range(new) |-> df.rows[i][Old(c)]])])]

\* pd.to_datetime(value, errors='coerce')
ToDatetime(v) == IF v < 0 THEN NaT ELSE v

\* df[col] = pd.to_datetime(df[col], errors='coerce')
ParseDates(df, col) ==
    [df EXCEPT !.rows = List([i \in 1..Len(df.rows) |->
                                [df.rows[i] EXCEPT ![col] = ToDatetime(df.rows[i][col])]])]

(***************************************************************************)
(* The join (lines 30-31).                                                 *)
(***************************************************************************)
\* the missing value of a right-hand column of an unmatched row
NullOf(c) == IF c = "Reads" THEN NaNum ELSE NaN

\* the positions from i on, in order, at which a boolean mask is true
RECURSIVE TruePositions(_, _)
TruePositions(mask, i) ==
    IF i > Len(mask) THEN <<>>
    ELSE (IF mask[i] THEN <<i>> ELSE <<>>) \o TruePositions(mask, i + 1)

RECURSIVE Flatten(_)
Flatten(ss) == IF ss = <<>> THEN <<>> ELSE Head(ss) \o Flatten(Tail(ss))

\* the right-hand rows a left-hand row is joined with: pandas matches a
\* missing key with a missing key
MatchingRows(right, on, key) ==
    TruePositions(List([j \in 1..Len(right.rows) |-> right.rows[j][on] = key]), 1)

\* how='inner': an unmatched left-hand row is joined with nothing and dropped
InnerJoinMatches(m) == m

\* how='left': an unmatched left-hand row is kept, joined with no row (0)
LeftJoinMatches(m) == IF m = <<>> THEN <<0>> ELSE m

\* left.merge(right, on=on, how='left', suffixes=(sl, sr))
Merge(left, right, on, sl, sr) ==
    LET overlap == (Range(left.columns) \cap Range(right.columns)) \ {on}
        LName(c) == IF c \in overlap THEN c \o sl ELSE c
        RName(c) == IF c \in overlap THEN c \o sr ELSE c
        NotKey(c) == c # on
        rcols == SelectSeq(right.columns, NotKey)
        columns == [i \in 1..Len(left.columns) |-> LName(left.columns[i])]
                   \o [i \in 1..Len(rcols) |-> RName(rcols[i])]
        Joined(l, j) ==
            Row([c \in Range(columns) |->
                    IF \E lc \in Range(left.columns) : LName(lc) = c
                    THEN l[CHOOSE lc \in Range(left.columns) : LName(lc) = c]
                    ELSE LET rc == CHOOSE x \in Range(rcols) : RName(x) = c
                         IN IF j = 0 THEN NullOf(rc) ELSE right.rows[j][rc]])
        RowsOf(l) ==
            LET m == LeftJoinMatches(MatchingRows(right, on, l[on]))
            IN List([k \in 1..Len(m) |-> Joined(l, m[k])])
        rows == Flatten(List([i \in 1..Len(left.rows) |-> RowsOf(left.rows[i])]))
    IN [columns |-> columns, index |-> RangeIndex(Len(rows)), rows |-> rows]

\* df.rename(columns=mapping): mapping is a set of <<old, new>> pairs
Rename(df, mapping) ==
    LET New(c) == IF \E p \in mapping : p[1] = c
                  THEN (CHOOSE p \in mapping : p[1] = c)[2] ELSE c
        columns == List([i \in 1..Len(df.columns) |-> New(df.columns[i])])
        Old(c) == CHOOSE o \in Range(df.columns) : New(o) = c
    IN [columns |-> columns,
        index |-> df.index,
        rows |-> List([i \in 1..Len(df.rows) |->
                          Row([c \in Range(columns) |-> df.rows[i][Old(c)]])])]

\* load_data with the author-side name renamed to 'Author Name'
load_data_RenameAuthorSide(rcsv, acsv, ucsv) ==
    LET r == ParseDates(StripColumns(ReadCsv(rcsv)), "Last Access Date")
        a == ParseDates(StripColumns(ReadCsv(acsv)), "Date")
        u == StripColumns(ReadCsv(ucsv))
        m == Merge(a, u, "Author Id", "_article", "_author")
    IN [loaded |-> TRUE,
        reader_df |-> r, article_df |-> a, author_df |-> u,
        merged_df |-> Rename(m, {<<"Reads_article", "Article Reads">>,
                                 <<"Author Name_author", "Author Name">>})]

\* the body of load_data()
load_data(rcsv, acsv, ucsv) ==
    LET r == ParseDates(StripColumns(ReadCsv(rcsv)), "Last Access Date")
        a == ParseDates(StripColumns(ReadCsv(acsv)), "Date")
        u == StripColumns(ReadCsv(ucsv))
        m == Merge(a, u, "Author Id", "_article", "_author")
    IN [loaded |-> TRUE,
        reader_df |-> r, article_df |-> a, author_df |-> u,
        merged_df |-> Rename(m, {<<"Reads_article", "Article Reads">>,
                                 <<"Author Name_article", "Author Name">>})]

(***************************************************************************)
(* Frames of one script run.  A heap is a sequence of frames and a frame   *)
(* is named by its position: copy() and boolean indexing allocate a new    *)
(* frame, column assignment changes a frame in place.                      *)
(***************************************************************************)
\* no copy: the same frame under another name
DfCopy_Alias(heap, ref) == [heap |-> heap, ref |-> ref]

\* df.copy()
DfCopy(heap, ref) == [heap |-> Append(heap, heap[ref]), ref |-> Len(heap) + 1]

\* the rows of df at the given positions, with their index labels
Take(df, pos) ==
    [columns |-> df.columns,
     index |-> List([k \in 1..Len(pos) |-> df.index[pos[k]]]),
     rows |-> List([k \in 1..Len(pos) |-> df.rows[pos[k]]])]

\* df[mask]
DfSelect(heap, ref, mask) ==
    [heap |-> Append(heap, Take(heap[ref], TruePositions(mask, 1))), ref |-> Len(heap) + 1]

\* df[col] = values, in place
DfSetColumn(heap, ref, col, values) ==
    LET df == heap[ref]
        columns == IF col \in Range(df.columns) THEN df.columns ELSE Append(df.columns, col)
    IN [heap EXCEPT ![ref] =
           [columns |-> columns,
            index |-> df.index,
            rows |-> List([i \in 1..Len(df.rows) |->
                              Row([c \in Range(columns) |->
                                      IF c = col THEN values[i] ELSE df.rows[i][c]])])]]

\* df[col] == value, elementwise: a missing cell equals nothing
EqMask(df, col, value) ==
    List([i \in 1..Len(df.rows) |-> df.rows[i][col] # NaN /\ df.rows[i][col] = value])

\* GeMask with > in place of >=
GeMask_Strict(df, col, cutoff) ==
    List([i \in 1..Len(df.rows) |-> df.rows[i][col] # NaT /\ df.rows[i][col] > cutoff])

\* df[col] >= cutoff, elementwise: NaT compares false
GeMask(df, col, cutoff) ==
    List([i \in 1..Len(df.rows) |-> df.rows[i][col] # NaT /\ df.rows[i][col] >= cutoff])

(***************************************************************************)
(* The sidebar (lines 39-50).                                              *)
(***************************************************************************)
\* ["All"] + sorted(df[col].dropna().unique()), as the set of its entries
SelectboxOptions(df, col) ==
    {"All"} \cup {df.rows[i][col] : i \in {j \in 1..Len(df.rows) : df.rows[j][col] # NaN}}

DateOptions == {"All Time", "Last 7 Days", "Last 30 Days", "Last 90 Days"}

None == <<>>

\* DateCutoff with a cutoff of 90 days in the else branch
DateCutoff_WindowInElse(option, now) ==
    CASE option = "Last 7 Days" -> <<now - 7>>
      [] option = "Last 30 Days" -> <<now - 30>>
      [] OTHER -> <<now - 90>>

\* lines 43-50: datetime.now() - timedelta(days), or None
DateCutoff(option, now) ==
    CASE option = "Last 7 Days" -> <<now - 7>>
      [] option = "Last 30 Days" -> <<now - 30>>
      [] option = "Last 90 Days" -> <<now - 90>>
      [] OTHER -> None

(***************************************************************************)
(* The filters (lines 53-63).                                              *)
(***************************************************************************)
\* FilterReaders with the industry selection applied to the unfiltered copy
FilterReaders_IndustryOnCopy(heap, ref, country, industry, cutoff) ==
    LET c0 == DfCopy(heap, ref)
        c1 == IF country # "All"
              THEN DfSelect(c0.heap, c0.ref, EqMask(c0.heap[c0.ref], "Country", country))
              ELSE c0
        c2 == IF industry # "All"
              THEN DfSelect(c1.heap, c0.ref, EqMask(c1.heap[c0.ref], "Industry", industry))
              ELSE c1
    IN IF cutoff # None
       THEN DfSelect(c2.heap, c2.ref, GeMask(c2.heap[c2.ref], "Last Access Date", cutoff[1]))
       ELSE c2

\* lines 53-59; the result is the heap and the frame filtered_reader_df names
FilterReaders(heap, ref, country, industry, cutoff) ==
    LET c0 == DfCopy(heap, ref)
        c1 == IF country # "All"
              THEN DfSelect(c0.heap, c0.ref, EqMask(c0.heap[c0.ref], "Country", country))
              ELSE c0
        c2 == IF industry # "All"
              THEN DfSelect(c1.heap, c1.ref, EqMask(c1.heap[c1.ref], "Industry", industry))
              ELSE c1
    IN IF cutoff # None
       THEN DfSelect(c2.heap, c2.ref, GeMask(c2.heap[c2.ref], "Last Access Date", cutoff[1]))
       ELSE c2

\* lines 61-63
FilterArticles(heap, ref, cutoff) ==
    LET c0 == DfCopy(heap, ref)
    IN IF cutoff # None
       THEN DfSelect(c0.heap, c0.ref, GeMask(c0.heap[c0.ref], "Date", cutoff[1]))
       ELSE c0

(***************************************************************************)
(* The topic of a title (lines 93-101).                                    *)
(***************************************************************************)
topic_keywords ==
    <<"tax", "esg", "mergers", "acquisition", "privacy", "compliance",
      "digital", "technology", "employment">>

\* the characters of a keyword
Chars(word) ==
    CASE word = "tax" -> <<"t", "a", "x">>
      [] word = "esg" -> <<"e", "s", "g">>
      [] word = "mergers" -> <<"m", "e", "r", "g", "e", "r", "s">>
      [] word = "acquisition" -> <<"a", "c", "q", "u", "i", "s", "i", "t", "i", "o", "n">>
      [] word = "privacy" -> <<"p", "r", "i", "v", "a", "c", "y">>
      [] word = "compliance" -> <<"c", "o", "m", "p", "l", "i", "a", "n", "c", "e">>
      [] word = "digital" -> <<"d", "i", "g", "i", "t", "a", "l">>
      [] word = "technology" -> <<"t", "e", "c", "h", "n", "o", "l", "o", "g", "y">>
      [] word = "employment" -> <<"e", "m", "p", "l", "o", "y", "m", "e", "n", "t">>

UpperCase ==
    <<"A", "B", "C", "D", "E", "F", "G", "H", "I", "J", "K", "L", "M",
      "N", "O", "P", "Q", "R", "S", "T", "U", "V", "W", "X", "Y", "Z">>
LowerCase ==
    <<"a", "b", "c", "d", "e", "f", "g", "h", "i", "j", "k", "l", "m",
      "n", "o", "p", "q", "r", "s", "t", "u", "v", "w", "x", "y", "z">>

\* str.lower() of one character
LowerChar(c) ==
    IF \E i \in 1..26 : UpperCase[i] = c
    THEN LowerCase[CHOOSE i \in 1..26 : UpperCase[i] = c]
    ELSE c

\* title.lower()
Lower(title) == List([i \in 1..Len(title) |-> LowerChar(title[i])])

\* title.startswith(word)
Contains_AtStart(word, title) ==
    Len(word) <= Len(title) /\ SubSeq(title, 1, Len(word)) = word

\* word in title
Contains(word, title) ==
    \E k \in 0..(Len(title) - Len(word)) : SubSeq(title, k + 1, k + Len(word)) = word

RECURSIVE FirstKeyword(_, _)
\* the for loop of match_topic from the i-th keyword on
FirstKeyword(title, i) ==
    IF i > Len(topic_keywords) THEN "other"
    ELSE IF Contains(Chars(topic_keywords[i]), title) THEN topic_keywords[i]
    ELSE FirstKeyword(title, i + 1)

match_topic(title) == FirstKeyword(Lower(title), 1)

\* Series.fillna('') on one title
FillNa(title) == IF title = NaNTitle THEN <<>> ELSE title

\* topic_df['Title'].fillna('').apply(match_topic)
TopicColumn(df) ==
    List([i \in 1..Len(df.rows) |-> match_topic(FillNa(df.rows[i]["Title"]))])

(***************************************************************************)
(* The rankings (lines 102, 113, 123).                                     *)
(***************************************************************************)
NoSeries == [index |-> <<>>, values |-> <<>>]

\* the strings that occur as group keys, in Python's string order
SortedStrings ==
    <<"Ann", "Bob", "Cy", "Dee", "Eve", "Fay", "Gus", "Hal", "Ivy", "Jon", "Kim", "Lee",
      "acquisition", "compliance", "digital", "employment",
      "esg", "mergers", "other", "privacy", "tax", "technology">>

StrRank(x) == CHOOSE k \in 1..Len(SortedStrings) : SortedStrings[k] = x

RECURSIVE SortStrings(_)
\* sorted(S) for a set of strings
SortStrings(S) ==
    IF S = {} THEN <<>>
    ELSE LET least == CHOOSE x \in S : \A y \in S : StrRank(x) <= StrRank(y)
         IN <<least>> \o SortStrings(S \ {least})

\* SumCells without skipping the missing cells
SumCells_MissingCounted(df, col, pos) ==
    SumSeq(List([k \in 1..Len(pos) |-> df.rows[pos[k]][col]]))

\* Series.sum() over the cells at the given positions: a missing cell adds 0
SumCells(df, col, pos) ==
    SumSeq(List([k \in 1..Len(pos) |->
                    IF df.rows[pos[k]][col] = NaNum THEN 0 ELSE df.rows[pos[k]][col]]))

\* df.groupby(key)[col].sum(): one entry per key that occurs, keys sorted;
\* rows with a missing key belong to no group
GroupBySum(df, key, col) ==
    LET keys == SortStrings({df.rows[i][key] :
                                i \in {j \in 1..Len(df.rows) : df.rows[j][key] # NaN}})
        Members(k) ==
            TruePositions(List([i \in 1..Len(df.rows) |-> df.rows[i][key] = k]), 1)
    IN [index |-> keys,
        values |-> List([g \in 1..Len(keys) |-> SumCells(df, col, Members(keys[g]))])]

\* numpy's argsort(kind='quicksort') on a column of numbers: v are the
\* values, t the positions being ordered (tosort), pl and pr the ends of the
\* range at work.  Ranges longer than SMALL_QUICKSORT + 1 are partitioned
\* around a median of three, the rest sorted by insertion.
SMALL_QUICKSORT == 16

\* position of the highest bit of n (npy_get_msb)
RECURSIVE npy_get_msb(_)
npy_get_msb(n) == IF n <= 1 THEN 0 ELSE 1 + npy_get_msb(n \div 2)

INTP_SWAP(t, i, j) == [t EXCEPT ![i] = t[j], ![j] = t[i]]

\* if (less(v[*a], v[*b])) INTP_SWAP(*a, *b)
SwapIfLess(v, t, a, b) == IF v[t[a]] < v[t[b]] THEN INTP_SWAP(t, a, b) ELSE t

MedianOfThree(v, t, pl, pm, pr) ==
    SwapIfLess(v, SwapIfLess(v, SwapIfLess(v, t, pm, pl), pr, pm), pm, pl)

RECURSIVE ScanUp(_, _, _, _)
\* do { ++pi; } while (less(v[*pi], vp)), entered at the incremented pi
ScanUp(v, t, vp, pi) == IF v[t[pi]] < vp THEN ScanUp(v, t, vp, pi + 1) ELSE pi

RECURSIVE ScanDown(_, _, _, _)
\* do { --pj; } while (less(vp, v[*pj])), entered at the decremented pj
ScanDown(v, t, vp, pj) == IF vp < v[t[pj]] THEN ScanDown(v, t, vp, pj - 1) ELSE pj

RECURSIVE Exchange(_, _, _, _, _)
\* the for (;;) loop of the partition, from the scans' stops pi and pj
Exchange(v, t, vp, pi, pj) ==
    IF pi >= pj THEN [t |-> t, pi |-> pi]
    ELSE Exchange(v, INTP_SWAP(t, pi, pj), vp,
                  ScanUp(v, INTP_SWAP(t, pi, pj), vp, pi + 1),
                  ScanDown(v, INTP_SWAP(t, pi, pj), vp, pj - 1))

\* the partition of pl..pr once the median is at pm: the pivot goes to
\* pr - 1, the scans exchange, and the pivot goes to where they met
PivotPlaced(v, t, pl, pm, pr) ==
    Exchange(v, INTP_SWAP(t, pm, pr - 1), v[t[pm]],
             ScanUp(v, INTP_SWAP(t, pm, pr - 1), v[t[pm]], pl + 1),
             ScanDown(v, INTP_SWAP(t, pm, pr - 1), v[t[pm]], pr - 2))

Partition(v, t, pl, pr) ==
    LET pm == pl + ((pr - pl) \div 2)
        at == PivotPlaced(v, MedianOfThree(v, t, pl, pm, pr), pl, pm, pr)
    IN [t |-> INTP_SWAP(at.t, at.pi, pr - 1), pi |-> at.pi]

RECURSIVE ShiftUp(_, _, _, _, _)
\* while (pj > pl && less(vp, v[*pk])) *pj-- = *pk--;  then *pj = vi
ShiftUp(v, t, pl, pj, vi) ==
    IF pj > pl /\ v[vi] < v[t[pj - 1]]
    THEN ShiftUp(v, [t EXCEPT ![pj] = t[pj - 1]], pl, pj - 1, vi)
    ELSE [t EXCEPT ![pj] = vi]

RECURSIVE InsertionSort(_, _, _, _, _)
\* the insertion sort of pl..pr, from pi on
InsertionSort(v, t, pl, pr, pi) ==
    IF pi > pr THEN t
    ELSE InsertionSort(v, ShiftUp(v, t, pl, pi, t[pi]), pl, pr, pi + 1)

RECURSIVE SiftDown(_, _, _, _, _, _, _)
\* the inner loop of aheapsort on a[1..n], a[k] being t[o + k]
SiftDown(v, t, o, n, tmp, i, j) ==
    IF j > n THEN [t EXCEPT ![o + i] = tmp]
    ELSE LET c == IF j < n /\ v[t[o + j]] < v[t[o + j + 1]] THEN j + 1 ELSE j
         IN IF v[tmp] < v[t[o + c]]
            THEN SiftDown(v, [t EXCEPT ![o + i] = t[o + c]], o, n, tmp, c, c + c)
            ELSE [t EXCEPT ![o + i] = tmp]

RECURSIVE Heapify(_, _, _, _, _)
\* for (l = n >> 1; l > 0; --l)
Heapify(v, t, o, n, l) ==
    IF l = 0 THEN t
    ELSE Heapify(v, SiftDown(v, t, o, n, t[o + l], l, l + l), o, n, l - 1)

RECURSIVE HeapDrain(_, _, _, _)
\* for (; n > 1;): the greatest goes to the end, the rest is a heap again
HeapDrain(v, t, o, n) ==
    IF n <= 1 THEN t
    ELSE HeapDrain(v, SiftDown(v, [t EXCEPT ![o + n] = t[o + 1]], o, n - 1, t[o + n], 1, 2),
                   o, n - 1)

\* aheapsort of pl..pr, taken when the depth limit is used up
aheapsort(v, t, pl, pr) ==
    HeapDrain(v, Heapify(v, t, pl - 1, pr - pl + 1, (pr - pl + 1) \div 2), pl - 1, pr - pl + 1)

RECURSIVE QuickOuter(_, _, _, _, _, _)
RECURSIVE QuickInner(_, _, _, _, _, _)
RECURSIVE QuickSplit(_, _, _, _, _, _)
RECURSIVE StackPop(_, _, _)
\* the top of the while (1) loop
QuickOuter(v, t, pl, pr, cdepth, stack) ==
    IF cdepth < 0 THEN StackPop(v, aheapsort(v, t, pl, pr), stack)
    ELSE QuickInner(v, t, pl, pr, cdepth, stack)

\* while ((pr - pl) > SMALL_QUICKSORT), then the insertion sort
QuickInner(v, t, pl, pr, cdepth, stack) ==
    IF pr - pl > SMALL_QUICKSORT
    THEN QuickSplit(v, Partition(v, t, pl, pr), pl, pr, cdepth, stack)
    ELSE StackPop(v, InsertionSort(v, t, pl, pr, pl + 1), stack)

\* the larger part is pushed, the smaller one is next
QuickSplit(v, p, pl, pr, cdepth, stack) ==
    IF p.pi - pl < pr - p.pi
    THEN QuickInner(v, p.t, pl, p.pi - 1, cdepth - 1,
                    Append(stack, [pl |-> p.pi + 1, pr |-> pr, cdepth |-> cdepth - 1]))
    ELSE QuickInner(v, p.t, p.pi + 1, pr, cdepth - 1,
                    Append(stack, [pl |-> pl, pr |-> p.pi - 1, cdepth |-> cdepth - 1]))

StackPop(v, t, stack) ==
    IF stack = <<>> THEN t
    ELSE QuickOuter(v, t, stack[Len(stack)].pl, stack[Len(stack)].pr,
                    stack[Len(stack)].cdepth, SubSeq(stack, 1, Len(stack) - 1))

\* values.argsort(kind='quicksort'): the positions of v in ascending order
aquicksort(v) ==
    QuickOuter(v, List([k \in 1..Len(v) |-> k]), 1, Len(v), npy_get_msb(Len(v)) * 2, <<>>)

Reversed(s) == List([k \in 1..Len(s) |-> s[Len(s) + 1 - k]])

\* non_nan_idx[order]
Picked(idx, order) == List([k \in 1..Len(order) |-> idx[order[k]]])

\* the non-missing positions ordered by value, descending: nargsort sorts
\* the reversed values ascending and reverses the outcome
DescOrder(present, values) ==
    Reversed(Picked(Reversed(present),
                    aquicksort(Reversed(List([k \in 1..Len(present) |-> values[present[k]]])))))

\* nargsort(values, kind='quicksort', ascending=False, na_position='last')
ArgSortDesc(values) ==
    DescOrder(TruePositions(List([i \in 1..Len(values) |-> values[i] # NaNum]), 1), values)
    \o TruePositions(List([i \in 1..Len(values) |-> values[i] = NaNum]), 1)

\* Series.sort_values(ascending=False)
SeriesSortDesc(series) ==
    LET order == ArgSortDesc(series.values)
    IN [index |-> List([k \in 1..Len(order) |-> series.index[order[k]]]),
        values |-> List([k \in 1..Len(order) |-> series.values[order[k]]])]

\* Series.head(n)
SeriesHead(series, n) ==
    [index |-> SubSeq(series.index, 1, Min(n, Len(series.index))),
     values |-> SubSeq(series.values, 1, Min(n, Len(series.values)))]

\* df.groupby(key)[col].sum().sort_values(ascending=False).head(n)
GroupSumTopN(df, key, col, n) == SeriesHead(SeriesSortDesc(GroupBySum(df, key, col)), n)

\* df[cols]
Project(df, cols) ==
    [columns |-> cols,
     index |-> df.index,
     rows |-> List([i \in 1..Len(df.rows) |-> Row([c \in Range(cols) |-> df.rows[i][c]])])]

\* df.sort_values(by=col, ascending=False)
FrameSortDesc(df, col) ==
    Take(df, ArgSortDesc(List([i \in 1..Len(df.rows) |-> df.rows[i][col]])))

\* df.head(n)
FrameHead(df, n) == Take(df, List([k \in 1..Min(n, Len(df.rows)) |-> k]))

\* line 113
TopArticles(df) ==
    FrameHead(FrameSortDesc(Project(df, <<"Title", "Author Name", "Article Reads", "Date">>),
                            "Article Reads"), 5)

(***************************************************************************)
(* One run of the script (lines 35-125) and a restart of the process.      *)
(***************************************************************************)
\* load_data() under @st.cache_data: the body runs when nothing is cached,
\* and every caller gets its own copy of the cached frames
CachedLoad == IF cache.loaded THEN cache ELSE load_data(reader_csv, article_csv, author_csv)

\* line 107: the .str accessor needs a column of strings; a 'Title' column
\* with rows and no title in any of them is read as a column of floats
HasStrAccessor(df, col) ==
    Len(df.rows) = 0 \/ \E i \in 1..Len(df.rows) : df.rows[i][col] # NaNTitle

\* lines 37-125 on the loaded frames d: what the run selects and produces
Script(d, country, industry, option, now) ==
    LET cutoff == DateCutoff(option, now)
        h0 == <<d.reader_df, d.merged_df>>
        fr == FilterReaders(h0, 1, country, industry, cutoff)
        fm == FilterArticles(fr.heap, 2, cutoff)
        tc == DfCopy(fm.heap, fm.ref)
        h1 == DfSetColumn(tc.heap, tc.ref, "Topic", TopicColumn(tc.heap[tc.ref]))
        articles == h1[fm.ref]
        topics == h1[tc.ref]
        \* line 102 is the first to look up 'Article Reads'
        found == "Article Reads" \in Range(topics.columns)
        \* line 107 comes between the rankings of lines 102 and 113
        done == found /\ HasStrAccessor(d.merged_df, "Title")
    IN [country_filter |-> country,
        industry_filter |-> industry,
        date_option |-> option,
        date_cutoff |-> cutoff,
        reader_df |-> h1[1],
        merged_df |-> h1[2],
        filtered_reader_df |-> h1[fr.ref],
        filtered_merged_df |-> articles,
        topic_df |-> topics,
        status |-> IF done THEN "ok" ELSE IF found THEN "AttributeError" ELSE "KeyError",
        top_topics |-> IF found THEN GroupSumTopN(topics, "Topic", "Article Reads", 5)
                       ELSE NoSeries,
        top_articles |-> IF done THEN TopArticles(articles) ELSE Unset,
        top_authors |-> IF done
                        THEN GroupSumTopN(articles, "Author Name", "Article Reads", 10)
                        ELSE NoSeries]

\* the variables of the script after a run
Finish(r) ==
    /\ country_filter' = r.country_filter
    /\ industry_filter' = r.industry_filter
    /\ date_option' = r.date_option
    /\ date_cutoff' = r.date_cutoff
    /\ reader_df' = r.reader_df
    /\ merged_df' = r.merged_df
    /\ filtered_reader_df' = r.filtered_reader_df
    /\ filtered_merged_df' = r.filtered_merged_df
    /\ topic_df' = r.topic_df
    /\ status' = r.status
    /\ top_topics' = r.top_topics
    /\ top_articles' = r.top_articles
    /\ top_authors' = r.top_authors

\* the selections and results of the last run, and the time it read
Snapshot ==
    [clock |-> clock,
     country_filter |-> country_filter,
     industry_filter |-> industry_filter,
     date_option |-> date_option,
     date_cutoff |-> date_cutoff,
     reader_df |-> reader_df,
     merged_df |-> merged_df,
     filtered_reader_df |-> filtered_reader_df,
     filtered_merged_df |-> filtered_merged_df,
     topic_df |-> topic_df,
     status |-> status,
     top_topics |-> top_topics,
     top_articles |-> top_articles,
     top_authors |-> top_authors]

Run(limit) ==
    /\ renders < limit
    /\ renders' = renders + 1
    /\ previous' = IF renders = 0 THEN NoRun ELSE Snapshot
    /\ cache' = CachedLoad
    /\ \E now \in clock..(Now0 + MaxTick) :
         /\ clock' = now
         /\ \E country \in SelectboxOptions(CachedLoad.reader_df, "Country"),
               industry \in SelectboxOptions(CachedLoad.reader_df, "Industry"),
               option \in DateOptions :
              Finish(Script(CachedLoad, country, industry, option, now))
    /\ UNCHANGED inputs

\* the cache is cleared (or the process restarts): the next run loads again
ClearCache ==
    /\ cache.loaded
    /\ cache' = NoCache
    /\ UNCHANGED <<inputs, clock, renders, previous, results>>

Next == Run(MaxRenders) \/ ClearCache

\* a single render
NextOnce == Run(1)

(***************************************************************************)
(* The sources.                                                            *)
(***************************************************************************)
ReaderHeader == <<"Email", "Country", "Industry", "Position", "Reads", "Last Access Date ">>

ReaderRecord(i, country, industry, date) ==
    ("Email" :> ("r" \o ToString(i))) @@ ("Country" :> country) @@ ("Industry" :> industry)
    @@ ("Position" :> "Partner") @@ ("Reads" :> 1) @@ ("Last Access Date " :> date)

ArticleHeader(withName) ==
    <<"Title", " Date", "Author Id", "Reads">> \o (IF withName THEN <<"Author Name">> ELSE <<>>)

ArticleRecord(withName, title, date, id, reads, name) ==
    ("Title" :> title) @@ (" Date" :> date) @@ ("Author Id" :> id) @@ ("Reads" :> reads)
    @@ (IF withName THEN ("Author Name" :> name) ELSE <<>>)

AuthorHeader(withReads) ==
    <<"Author Id ", "Author Name">> \o (IF withReads THEN <<"Reads">> ELSE <<>>)

AuthorRecord(withReads, id, name, reads) ==
    ("Author Id " :> id) @@ ("Author Name" :> name)
    @@ (IF withReads THEN ("Reads" :> reads) ELSE <<>>)

Csv(header, records) == [header |-> header, records |-> records]

Title(word) == IF word = "none" THEN <<"N", "e", "w", "s">> ELSE Chars(word)

\* the sources the specifications hold fixed
OneReader == Csv(ReaderHeader, <<ReaderRecord(1, "Germany", NaN, 93)>>)
OneArticle == Csv(ArticleHeader(TRUE), <<ArticleRecord(TRUE, Title("tax"), 93, 1, 5, "Cy")>>)
OneAuthor == Csv(AuthorHeader(TRUE), <<AuthorRecord(TRUE, 1, "Ann", 7)>>)

Start(r, a, u) ==
    /\ reader_csv = r
    /\ article_csv = a
    /\ author_csv = u
    /\ cache = NoCache
    /\ clock = Now0
    /\ renders = 0
    /\ previous = NoRun
    /\ status = "start"
    /\ country_filter = "All"
    /\ industry_filter = "All"
    /\ date_option = "All Time"
    /\ date_cutoff = None
    /\ reader_df = Unset
    /\ merged_df = Unset
    /\ filtered_reader_df = Unset
    /\ filtered_merged_df = Unset
    /\ topic_df = Unset
    /\ top_topics = NoSeries
    /\ top_articles = Unset
    /\ top_authors = NoSeries

\* two readers and two articles, one of each with a date that is missing or
\* does not parse
DatedArticle(date) == ArticleRecord(TRUE, Title("tax"), date, 1, 5, "Cy")

SessionReaders ==
    Csv(ReaderHeader, <<ReaderRecord(1, "Germany", "Legal", 93), ReaderRecord(2, NaN, NaN, NaT)>>)

SessionArticles ==
    Csv(ArticleHeader(TRUE), <<DatedArticle(93), DatedArticle(BadDate)>>)

\* the reader source varies: the specification of the filters
Countries == {NaN, "Germany", "France"}
Industries == {NaN, "Legal"}
\* day 93 is the 7-day cutoff at Now0 and before it a day later
DateCells == {NaT, 93}

ReaderCells == [country : Countries, industry : Industries, date : DateCells]

ReaderCsvs ==
    {Csv(ReaderHeader,
         List([i \in 1..Len(cells) |->
                  ReaderRecord(i, cells[i].country, cells[i].industry, cells[i].date)])) :
        cells \in SeqsUpTo(ReaderCells, MaxReaders)}

DatedArticleCsvs ==
    {Csv(ArticleHeader(TRUE), <<>>),
     Csv(ArticleHeader(TRUE), <<DatedArticle(BadDate)>>),
     Csv(ArticleHeader(TRUE), <<DatedArticle(93), DatedArticle(NaT)>>)}
    \cup {Csv(ArticleHeader(TRUE), <<DatedArticle(date), DatedArticle(93)>>) :
             date \in {NaT, 10}}

DatedReaders ==
    Csv(ReaderHeader, <<ReaderRecord(1, "Germany", "Legal", 10), ReaderRecord(2, NaN, NaN, NaT)>>)

InitFilter ==
    \/ \E r \in ReaderCsvs : Start(r, SessionArticles, OneAuthor)
    \/ \E a \in DatedArticleCsvs : Start(DatedReaders, a, OneAuthor)

SpecFilter == InitFilter /\ [][NextOnce]_vars

\* the article and author sources vary, with and without an 'Author Name'
\* column in the articles and a 'Reads' column in the authors: the
\* specification of the join
NoReaders == Csv(ReaderHeader, <<>>)
AuthorIds == {NaNum, 1, 2}
AuthorNames == <<"Ann", "Bob", "Dee", "Eve", "Fay", "Gus", "Hal", "Ivy", "Jon", "Kim", "Lee">>

KeyedArticleCells(withName) ==
    [id : AuthorIds, name : IF withName THEN {NaN, "Cy"} ELSE {NaN}]

\* the first two rows vary in id and name, the rows after them in id
KeyedArticleCsvs(withName) ==
    {Csv(ArticleHeader(withName),
         List([i \in 1..Len(cells) |->
                  ArticleRecord(withName, Title("tax"), 93, cells[i].id, 5, cells[i].name)])) :
        cells \in {c \in SeqsUpTo(KeyedArticleCells(withName), MaxArticles) :
                      \A i \in 3..Len(c) : withName => c[i].name = "Cy"}}

AuthorCsvs(withReads) ==
    {Csv(AuthorHeader(withReads),
         List([i \in 1..Len(ids) |-> AuthorRecord(withReads, ids[i], AuthorNames[i], 7)])) :
        ids \in SeqsUpTo(AuthorIds \ {2}, MaxAuthors)}

InitJoin ==
    \E withName, withReads \in BOOLEAN :
        \E a \in KeyedArticleCsvs(withName), u \in AuthorCsvs(withReads) :
            Start(NoReaders, a, u)

SpecJoin == InitJoin /\ [][NextOnce]_vars

\* one article whose title varies: the specification of the topics.  A title
\* is a missing cell (read_csv reads an empty cell as missing) or one to
\* MaxFrags fragments, one after the other.
Fragments ==
    {Chars(topic_keywords[i]) : i \in 1..Len(topic_keywords)}
    \cup {<<"T", "a", "x">>, <<"E", "S", "G">>, <<"t", "a">>, <<"x">>, <<" ">>,
          <<"N", "e", "w", "s">>}

Titles == {NaNTitle} \cup {Flatten(f) : f \in SeqsUpTo(Fragments, MaxFrags) \ {<<>>}}

InitTopic ==
    \E title \in Titles :
        Start(NoReaders,
              Csv(ArticleHeader(TRUE), <<ArticleRecord(TRUE, title, 93, 1, 5, "Cy")>>),
              OneAuthor)

SpecTopic == InitTopic /\ [][NextOnce]_vars

\* the articles vary in topic, reads and author: the specification of the
\* rankings.  A short table has up to MaxRanked rows; a long one has one row
\* for each of the eleven authors, which is one group more than the ten that
\* line 123 keeps; a table of SMALL_QUICKSORT + 2 rows is the shortest that
\* the sort of line 113 partitions.
RankedAuthors ==
    Csv(AuthorHeader(TRUE),
        List([i \in 1..Len(AuthorNames) |-> AuthorRecord(TRUE, i, AuthorNames[i], 7)]))

\* the keyword of row i when the row has a topic of its own
OwnTopic(i) == topic_keywords[Min(i, Len(topic_keywords))]

\* row i of a short table: the authors 1, 2, 3 and an unknown one in turn
ShortCells(i) ==
    [word : IF i <= 2 THEN {"tax", OwnTopic(i)} ELSE {OwnTopic(i)},
     reads : IF i <= 2 THEN {NaNum, 5, 7} ELSE IF i <= 4 THEN {5, 7} ELSE {5},
     id : {<<1, 2, 3, 0>>[((i - 1) % 4) + 1]}]

\* row i of a long table
LongCells(i) ==
    [word : {OwnTopic(i)},
     reads : IF i \in {1, 2, Len(AuthorNames) - 1} THEN {5, 7}
             ELSE IF i = Len(AuthorNames) THEN {NaNum, 5} ELSE {6},
     id : {i}]

\* row i of a table that is partitioned: the authors in turn, equal reads
\* but for the first two rows and the last
PartitionedRows == SMALL_QUICKSORT + 2

PartitionedCells(i) ==
    [word : {OwnTopic(i)},
     reads : IF i \in {1, 2, PartitionedRows} THEN {5, 7} ELSE {5},
     id : {((i - 1) % Len(AuthorNames)) + 1}]

Cells(kind, i) ==
    CASE kind = "short" -> ShortCells(i)
      [] kind = "long" -> LongCells(i)
      [] kind = "partitioned" -> PartitionedCells(i)

RECURSIVE CellRows(_, _)
\* the tables of n rows of a kind
CellRows(n, kind) ==
    IF n = 0 THEN {<<>>}
    ELSE {Append(rows, c) : rows \in CellRows(n - 1, kind), c \in Cells(kind, n)}

RankedArticleCsvs ==
    {Csv(ArticleHeader(FALSE),
         List([i \in 1..Len(cells) |->
                  ArticleRecord(FALSE, Title(cells[i].word), 93, cells[i].id,
                                cells[i].reads, NaN)])) :
        cells \in UNION {CellRows(n, "short") : n \in 0..MaxRanked}
                  \cup CellRows(Len(AuthorNames), "long")
                  \cup CellRows(PartitionedRows, "partitioned")}

InitRank ==
    \E a \in RankedArticleCsvs : Start(NoReaders, a, RankedAuthors)

SpecRank == InitRank /\ [][NextOnce]_vars

\* a session of up to MaxRenders runs on one set of sources
Init == Start(SessionReaders, SessionArticles, OneAuthor)

Spec == Init /\ [][Next]_vars

(***************************************************************************)
(* The filters: claims C2 and C3, checked under SpecFilter.                *)
(***************************************************************************)
\* the index labels of a frame
Labels(df) == Range(df.index)

\* the index labels of a frame are in increasing order
InInputOrder(df) == \A i, j \in 1..Len(df.index) : i < j => df.index[i] < df.index[j]

\* row i of the loaded frame passes a selection of column col
Selected(df, i, col, selection) ==
    selection = "All" \/ (df.rows[i][col] # NaN /\ df.rows[i][col] = selection)

\* row i of the loaded frame passes the cutoff on column col
InWindow(df, i, col, cutoff) ==
    cutoff = None \/ (df.rows[i][col] # NaT /\ df.rows[i][col] >= cutoff[1])

\* the reader rows every active predicate holds for
ReadersToKeep ==
    {i \in 1..Len(cache.reader_df.rows) :
        /\ Selected(cache.reader_df, i, "Country", country_filter)
        /\ Selected(cache.reader_df, i, "Industry", industry_filter)
        /\ InWindow(cache.reader_df, i, "Last Access Date", date_cutoff)}

\* the rows of a filtered frame are the rows of the loaded frame with the same label
SameRows(filtered, base) ==
    \A k \in 1..Len(filtered.rows) :
        \E i \in 1..Len(base.rows) :
            /\ base.index[i] = filtered.index[k]
            /\ \A c \in Range(base.columns) : filtered.rows[k][c] = base.rows[i][c]

\* C2: after a run, filtered_reader_df holds exactly the reader rows for which
\* every active predicate (country, industry, cutoff) holds, a row with a
\* missing Country or Industry never passing a specific selection, and the
\* kept rows are in the order of the input.
C2_ReadersKeptIffAllPredicates ==
    (renders > 0 /\ cache.loaded) =>
        /\ Labels(filtered_reader_df) = {cache.reader_df.index[i] : i \in ReadersToKeep}
        /\ Len(filtered_reader_df.rows) = Cardinality(ReadersToKeep)
        /\ InInputOrder(filtered_reader_df)
        /\ SameRows(filtered_reader_df, cache.reader_df)
        /\ \A k \in 1..Len(filtered_reader_df.rows) :
              /\ country_filter # "All" => filtered_reader_df.rows[k]["Country"] # NaN
              /\ industry_filter # "All" => filtered_reader_df.rows[k]["Industry"] # NaN

\* all three predicates are active, one row passes them and a row with a
\* missing Country is dropped
C2_Witness ==
    /\ renders > 0 /\ cache.loaded
    /\ country_filter # "All" /\ industry_filter # "All" /\ date_cutoff # None
    /\ Len(filtered_reader_df.rows) = 1
    /\ \E i \in 1..Len(cache.reader_df.rows) :
          cache.reader_df.rows[i]["Country"] = NaN /\ i \notin ReadersToKeep

WindowDays(option) ==
    CASE option = "Last 7 Days" -> 7
      [] option = "Last 30 Days" -> 30
      [] option = "Last 90 Days" -> 90

\* the rows of the loaded frame whose date in column col is present and not
\* before the day `first`
DatedFrom(df, col, first) ==
    {i \in 1..Len(df.rows) : df.rows[i][col] # NaT /\ df.rows[i][col] >= first}

\* the reader rows the country and industry selections let pass
ReadersSelected ==
    {i \in 1..Len(cache.reader_df.rows) :
        /\ Selected(cache.reader_df, i, "Country", country_filter)
        /\ Selected(cache.reader_df, i, "Industry", industry_filter)}

\* C3: with a time window selected the cutoff is now minus 7, 30 or 90 days and
\* a reader row (by Last Access Date) or article row (by Date) is kept iff its
\* date is present and >= the cutoff; with 'All Time' no row is dropped for its
\* date, missing or not.
C3_WindowKeepsDatedFromCutoff ==
    (renders > 0 /\ cache.loaded) =>
        IF date_option = "All Time"
        THEN /\ date_cutoff = None
             /\ Labels(filtered_merged_df) = Labels(cache.merged_df)
             /\ Len(filtered_merged_df.rows) = Len(cache.merged_df.rows)
             /\ Labels(filtered_reader_df) = {cache.reader_df.index[i] : i \in ReadersSelected}
        ELSE LET first == clock - WindowDays(date_option)
                 articles == DatedFrom(cache.merged_df, "Date", first)
                 readers == ReadersSelected
                            \cap DatedFrom(cache.reader_df, "Last Access Date", first)
             IN /\ date_cutoff = <<first>>
                /\ Labels(filtered_merged_df) = {cache.merged_df.index[i] : i \in articles}
                /\ Len(filtered_merged_df.rows) = Cardinality(articles)
                /\ Labels(filtered_reader_df) = {cache.reader_df.index[i] : i \in readers}
                /\ Len(filtered_reader_df.rows) = Cardinality(readers)

\* a window is selected; among the readers and among the articles there is a
\* row with a missing date, which is dropped, and a row dated exactly at the
\* cutoff, which is kept
C3_Witness ==
    /\ renders > 0 /\ cache.loaded /\ date_cutoff # None
    /\ country_filter = "All" /\ industry_filter = "All"
    /\ \E i, j \in 1..Len(cache.reader_df.rows) :
          /\ cache.reader_df.rows[i]["Last Access Date"] = NaT
          /\ cache.reader_df.index[i] \notin Labels(filtered_reader_df)
          /\ cache.reader_df.rows[j]["Last Access Date"] = date_cutoff[1]
          /\ cache.reader_df.index[j] \in Labels(filtered_reader_df)
    /\ \E i, j \in 1..Len(cache.merged_df.rows) :
          /\ cache.merged_df.rows[i]["Date"] = NaT
          /\ cache.merged_df.index[i] \notin Labels(filtered_merged_df)
          /\ cache.merged_df.rows[j]["Date"] = date_cutoff[1]
          /\ cache.merged_df.index[j] \in Labels(filtered_merged_df)

(***************************************************************************)
(* The join: claims C1, C8 and C9, checked under SpecJoin.                 *)
(***************************************************************************)
\* the author rows with the Author Id of article row i; a missing id is
\* matched by a missing id
AuthorsOf(i) ==
    {j \in 1..Len(cache.author_df.rows) :
        cache.author_df.rows[j]["Author Id"] = cache.article_df.rows[i]["Author Id"]}

\* how many joined rows article row i gives
Copies(i) == IF AuthorsOf(i) = {} THEN 1 ELSE Cardinality(AuthorsOf(i))

\* no Author Id, the missing one included, occurs twice in the author table
UniqueAuthorIds ==
    \A j, k \in 1..Len(cache.author_df.rows) :
        cache.author_df.rows[j]["Author Id"] = cache.author_df.rows[k]["Author Id"] => j = k

\* the name an article column has in the joined frame
JoinedName(c) ==
    IF c = "Reads" /\ "Reads" \in Range(cache.author_df.columns) THEN "Article Reads" ELSE c

\* joined row k holds the cells of article row i
HoldsArticle(k, i) ==
    \A c \in Range(cache.article_df.columns) :
        /\ JoinedName(c) \in Range(cache.merged_df.columns)
        /\ cache.merged_df.rows[k][JoinedName(c)] = cache.article_df.rows[i][c]

\* the original statement of C1: the joined row count equals the article row
\* count for every author table
C1_Original_CountAlwaysEqual ==
    cache.loaded => Len(cache.merged_df.rows) = Len(cache.article_df.rows)

\* C1 (amended): the join holds each article row once per author row with its
\* Author Id, and once when there is none; so when no Author Id occurs twice
\* in the author table, every article row is in the join exactly once, in
\* order, and the joined row count equals the article row count.
C1_EachArticleOncePerMatch ==
    cache.loaded =>
        /\ Len(cache.merged_df.rows)
             = SumSeq(List([i \in 1..Len(cache.article_df.rows) |-> Copies(i)]))
        /\ \A i \in 1..Len(cache.article_df.rows) :
              Cardinality({k \in 1..Len(cache.merged_df.rows) : HoldsArticle(k, i)})
                >= Copies(i)
        /\ UniqueAuthorIds =>
              /\ Len(cache.merged_df.rows) = Len(cache.article_df.rows)
              /\ \A i \in 1..Len(cache.article_df.rows) : HoldsArticle(i, i)

\* two articles are joined with an author table without a repeated id, one of
\* them matching an author and the other matching none
C1_Witness ==
    /\ cache.loaded /\ UniqueAuthorIds
    /\ Len(cache.article_df.rows) = 2 /\ Len(cache.merged_df.rows) = 2
    /\ AuthorsOf(1) # {} /\ AuthorsOf(2) = {}

\* the original statement of C8: the 'Author Name' of a joined row whose
\* article matches no author is missing
C8_Original_UnmatchedNameMissing ==
    cache.loaded =>
        \A i \in 1..Len(cache.article_df.rows) :
            AuthorsOf(i) = {} =>
                \E k \in 1..Len(cache.merged_df.rows) :
                    HoldsArticle(k, i) /\ cache.merged_df.rows[k]["Author Name"] = NaN

\* C8 (amended): an article that matches no author is still in the join, with
\* a missing author-side name: that is the field 'Author Name' when the
\* articles carry no 'Author Name' column; when they do, 'Author Name' is the
\* article's own value and the missing author-side name is 'Author Name_author'.
C8_UnmatchedKeptWithMissingAuthorSide ==
    cache.loaded =>
        \A i \in 1..Len(cache.article_df.rows) :
            AuthorsOf(i) = {} =>
                \E k \in 1..Len(cache.merged_df.rows) :
                    /\ HoldsArticle(k, i)
                    /\ IF "Author Name" \in Range(cache.article_df.columns)
                       THEN /\ cache.merged_df.rows[k]["Author Name"]
                                 = cache.article_df.rows[i]["Author Name"]
                            /\ "Author Name_author" \in Range(cache.merged_df.columns)
                            /\ cache.merged_df.rows[k]["Author Name_author"] = NaN
                       ELSE cache.merged_df.rows[k]["Author Name"] = NaN

\* an article with a name of its own matches no row of a non-empty author table
C8_Witness ==
    /\ cache.loaded
    /\ Len(cache.author_df.rows) > 0
    /\ \E i \in 1..Len(cache.article_df.rows) :
          /\ AuthorsOf(i) = {}
          /\ "Author Name" \in Range(cache.article_df.columns)
          /\ cache.article_df.rows[i]["Author Name"] = "Cy"

\* C9: after the join the joined frame has a column 'Article Reads' that
\* holds the Reads of the article of each row, whatever columns the author
\* table has.
C9_ArticleReadsAlwaysPresent ==
    cache.loaded =>
        /\ "Article Reads" \in Range(cache.merged_df.columns)
        /\ UniqueAuthorIds =>
              \A i \in 1..Len(cache.article_df.rows) :
                  cache.merged_df.rows[i]["Article Reads"] = cache.article_df.rows[i]["Reads"]

(***************************************************************************)
(* The topics: claim C5, checked under SpecTopic.                          *)
(***************************************************************************)
\* the keyword occurs in the title at some place, whatever the case of the
\* title's letters
Occurs(word, title) ==
    \E k \in 0..(Len(title) - Len(Chars(word))) :
        \A j \in 1..Len(Chars(word)) : LowerChar(title[k + j]) = Chars(word)[j]

\* the title of article row i as the source gives it, a missing one as ''
SourceTitle(i) ==
    IF article_csv.records[i]["Title"] = NaNTitle THEN <<>>
    ELSE article_csv.records[i]["Title"]

\* C5: the Topic of every row is one label of the nine keywords and 'other':
\* the first keyword of the list that occurs in the lower-cased title,
\* wherever it occurs, and 'other' iff none occurs; a missing title gives
\* 'other'.
C5_TopicIsFirstKeywordInListOrder ==
    (renders > 0 /\ date_option = "All Time") =>
        /\ Len(topic_df.rows) = Len(article_csv.records)
        /\ \A i \in 1..Len(topic_df.rows) :
              LET topic == topic_df.rows[i]["Topic"]
                  title == SourceTitle(i)
              IN /\ topic \in Range(topic_keywords) \cup {"other"}
                 /\ \A n \in 1..Len(topic_keywords) :
                       topic = topic_keywords[n] <=>
                           /\ Occurs(topic_keywords[n], title)
                           /\ \A m \in 1..(n - 1) : ~Occurs(topic_keywords[m], title)
                 /\ topic = "other" <=>
                       \A n \in 1..Len(topic_keywords) : ~Occurs(topic_keywords[n], title)
                 /\ article_csv.records[i]["Title"] = NaNTitle => topic = "other"

\* a title in capitals in which 'esg' comes before 'tax' has the topic 'tax'
C5_Witness ==
    /\ renders > 0 /\ date_option = "All Time"
    /\ Len(topic_df.rows) = 1
    /\ topic_df.rows[1]["Topic"] = "tax"
    /\ Len(article_csv.records[1]["Title"]) >= 4
    /\ SubSeq(article_csv.records[1]["Title"], 1, 4) = <<"E", "S", "G", "T">>

(***************************************************************************)
(* The rankings: claims C6 and C7, checked under SpecRank.                 *)
(***************************************************************************)
\* the keys of the groups of a frame: the values of the key column that
\* occur; a row with a missing key belongs to no group
GroupKeys(df, key) ==
    {df.rows[i][key] : i \in {j \in 1..Len(df.rows) : df.rows[j][key] # NaN}}

RECURSIVE ReadsOver(_, _)
\* the 'Article Reads' of the rows at the positions P added up, a missing
\* value counting 0
ReadsOver(df, P) ==
    IF P = {} THEN 0
    ELSE LET i == CHOOSE x \in P : TRUE
             reads == df.rows[i]["Article Reads"]
         IN (IF reads = NaNum THEN 0 ELSE reads) + ReadsOver(df, P \ {i})

GroupTotal(df, key, k) == ReadsOver(df, {i \in 1..Len(df.rows) : df.rows[i][key] = k})

\* series is the top n of the groups of df by total
IsTopN(series, df, key, n) ==
    /\ Len(series.index) = Len(series.values)
    /\ Len(series.index) <= n
    /\ Len(series.index) = Min(n, Cardinality(GroupKeys(df, key)))
    /\ \A i, j \in 1..Len(series.index) :
          /\ i < j => series.values[i] >= series.values[j]
          /\ i # j => series.index[i] # series.index[j]
    /\ \A i \in 1..Len(series.index) :
          /\ series.index[i] \in GroupKeys(df, key)
          /\ series.values[i] = GroupTotal(df, key, series.index[i])
    /\ \A k \in GroupKeys(df, key) \ Range(series.index) :
          \A i \in 1..Len(series.index) : GroupTotal(df, key, k) <= series.values[i]

\* C6: in a run that reaches the rankings, reads-by-topic (n = 5) and
\* reads-by-author (n = 10) are lists of (key, total) of length at most n, in
\* descending order of total, each total the sum of 'Article Reads' over the
\* filtered rows of the group with a missing value counting 0, and no group
\* left out has a greater total than one returned; with no rows left the
\* lists are empty.
C6_GroupedTopNBySum ==
    status = "ok" =>
        /\ IsTopN(top_topics, topic_df, "Topic", 5)
        /\ IsTopN(top_authors, filtered_merged_df, "Author Name", 10)
        /\ filtered_merged_df.rows = <<>> =>
              top_topics = NoSeries /\ top_authors = NoSeries

\* six or more topics and eleven authors are ranked, so that both lists are
\* cut, and a row with missing reads is in a group that is returned
C6_Witness ==
    /\ status = "ok"
    /\ Cardinality(GroupKeys(topic_df, "Topic")) > 5
    /\ Len(top_topics.index) = 5
    /\ Cardinality(GroupKeys(filtered_merged_df, "Author Name")) > 10
    /\ Len(top_authors.index) = 10
    /\ \E i \in 1..Len(topic_df.rows) :
          /\ topic_df.rows[i]["Article Reads"] = NaNum
          /\ topic_df.rows[i]["Topic"] \in Range(top_topics.index)
          /\ Cardinality({j \in 1..Len(topic_df.rows) :
                             topic_df.rows[j]["Topic"] = topic_df.rows[i]["Topic"]}) > 1

\* C7: the top articles are at most 5 rows of the filtered joined frame in
\* descending order of 'Article Reads', and rows with equal 'Article Reads'
\* are in their original relative order.
C7_TopArticlesKeepOrderOfTies ==
    status = "ok" =>
        /\ Len(top_articles.rows) = Min(5, Len(filtered_merged_df.rows))
        /\ Labels(top_articles) \subseteq Labels(filtered_merged_df)
        /\ \A i, j \in 1..Len(top_articles.rows) :
              i < j =>
                  LET a == top_articles.rows[i]["Article Reads"]
                      b == top_articles.rows[j]["Article Reads"]
                  IN /\ b = NaNum \/ (a # NaNum /\ a >= b)
                     /\ a = b => top_articles.index[i] < top_articles.index[j]

(***************************************************************************)
(* Renders of one session: claims C4 and C10, checked under Spec.          *)
(***************************************************************************)
\* the frames load_data() gives for the sources
Loaded == load_data(reader_csv, article_csv, author_csv)

AllSelected ==
    country_filter = "All" /\ industry_filter = "All" /\ date_option = "All Time"

\* C4: after every run the loaded reader frame and joined frame are as
\* load_data() gave them, whatever was selected in this run and the runs
\* before it and with the 'Topic' column derived; so a run with 'All', 'All'
\* and 'All Time' shows every reader row and every joined row.
C4_FiltersLeaveLoadedFramesAlone ==
    renders > 0 =>
        /\ reader_df = Loaded.reader_df
        /\ merged_df = Loaded.merged_df
        /\ cache.loaded => cache = Loaded
        /\ "Topic" \in Range(topic_df.columns)
        /\ "Topic" \notin Range(merged_df.columns)
        /\ AllSelected =>
              /\ Len(filtered_reader_df.rows) = Len(reader_csv.records)
              /\ filtered_reader_df = Loaded.reader_df
              /\ filtered_merged_df = Loaded.merged_df

\* a run with country 'Germany' that dropped a reader is followed by a run
\* with nothing selected that shows both readers and both articles
C4_Witness ==
    /\ renders = 2
    /\ previous.country_filter = "Germany"
    /\ Len(previous.filtered_reader_df.rows) = 1
    /\ Len(previous.topic_df.rows) > 0
    /\ AllSelected
    /\ Len(filtered_reader_df.rows) = 2
    /\ Len(filtered_merged_df.rows) = 2

SameSelection ==
    /\ previous.country_filter = country_filter
    /\ previous.industry_filter = industry_filter
    /\ previous.date_option = date_option

SameResults ==
    /\ previous.date_cutoff = date_cutoff
    /\ previous.reader_df = reader_df
    /\ previous.merged_df = merged_df
    /\ previous.filtered_reader_df = filtered_reader_df
    /\ previous.filtered_merged_df = filtered_merged_df
    /\ previous.topic_df = topic_df
    /\ previous.status = status
    /\ previous.top_topics = top_topics
    /\ previous.top_articles = top_articles
    /\ previous.top_authors = top_authors

\* the original statement of C10: two runs on the same sources with the same
\* selection give the same joined, filtered and ranked results
C10_Original_SameSelectionSameResults ==
    (renders >= 2 /\ SameSelection) => SameResults

\* C10 (amended): two runs on the same sources with the same selection give
\* the same joined, filtered and ranked results when the window is 'All Time'
\* or both runs read the same time; the results depend on the sources, the
\* selection and, under a window of days, the time of the run.
C10_SameSelectionAndTimeSameResults ==
    (renders >= 2 /\ SameSelection /\ (date_option = "All Time" \/ previous.clock = clock))
        => SameResults

\* 'Germany' and 'Last 7 Days' are selected in two runs that read the same
\* time; each run drops a reader and an article
C10_Witness ==
    /\ renders = 2 /\ SameSelection
    /\ country_filter = "Germany" /\ date_option = "Last 7 Days"
    /\ previous.clock = clock
    /\ Len(filtered_reader_df.rows) = 1
    /\ Len(filtered_merged_df.rows) = 1

====
